---- MODULE Spec2Model ----
(***************************************************************************)
(* The question-answering pipeline of the Slack knowledge bot              *)
(* (src/index.js): handleQuestion, AIService.generateAnswer with its       *)
(* Gemini -> OpenAI fallback, AIService.generateSuggestions, and the       *)
(* conversation cache (node-cache, stdTTL 600), and of its knowledge blob: *)
(* KnowledgeSource.indexAll with its three fetchers.                       *)
(*                                                                         *)
(* Every await of the code is a suspension point: a handler task runs from *)
(* one await to the next in one step, and the steps of different tasks     *)
(* interleave.  The network (Slack, Gemini, OpenAI) is the environment: it *)
(* settles a pending call with any of its possible outcomes, or never.     *)
(***************************************************************************)
EXTENDS Integers, Sequences, FiniteSets, TLC

\* ------------------------------------------------------------------------
\* Bounds of the model
\* ------------------------------------------------------------------------
MaxQuestions == 2
MaxTicks == 2
MaxCacheQuestions == 2
MaxItems == 4
MaxIndexQuestions == 1
MaxSuggestQuestions == 1
MaxRaceQuestions == 2
MaxFrameQuestions == 2

Handlers == {"h1", "h2"}
Users == {"U1", "U2"}
Channels == {"C1"}
Questions == {"q1", "q2"}
Indexers == {"i1", "i2"}

\* ------------------------------------------------------------------------
\* JavaScript values: strings are sequences of fragments, so that
\* String.prototype.includes is a search and not an equality.
\* ------------------------------------------------------------------------
Str(fragments) == [type |-> "string", val |-> fragments]
Null == [type |-> "null", val |-> <<>>]
EmptyString == Str(<<>>)
Includes(text, needle) == \E i \in DOMAIN text.val : text.val[i] = needle
Falsy(text) == text.type = "null" \/ text.val = <<>>

indexedKnowledgeInitial == Str(<<"No knowledge has been indexed yet. Please run the /index command.">>)
stdTTL == 600
\* The clock advances by a second or by a whole TTL.
TickSteps == {1, stdTTL}
currentPersona == "a helpful and friendly assistant named KnowledgeBot"

RefusalPhrase == "I do not have information"
ApologyText == Str(<<"Sorry, I had trouble formulating a response.", " The AI may have refused to answer due to its safety policies.">>)
ThinkingText == Str(<<"Thinking...">>)
CriticalErrorText == Str(<<"I am sorry, but I encountered a critical error.">>)

\* What the providers can answer.
GeminiAnswerText == Str(<<"Project Titan ships in May.">>)
GeminiRefusalText == Str(<<RefusalPhrase, " on that.">>)
\* An answer that holds the refusal phrase among other text.
GeminiPartialText == Str(<<"Project Titan ships in May. ", RefusalPhrase, " on its price.">>)
OpenAIAnswerText == Str(<<"Titan is planned for May.">>)
OverrideDocument == Str(<<"text of the google_doc source">>)

\* ------------------------------------------------------------------------
\* Errors and call outcomes
\* ------------------------------------------------------------------------
Err(message, code) == [message |-> message, code |-> code]
NoError == Err(EmptyString, "none")
Http429Error == Err(Str(<<"[", "429", " Too Many Requests]">>), "none")
RateLimitCodeError == Err(Str(<<"You exceeded your current quota">>), "rate_limit_exceeded")
OtherError == Err(Str(<<"[", "500", " Internal Server Error]">>), "none")
TypeError == Err(Str(<<"Cannot read properties of null">>), "none")

Responded(blocked, text) == [kind |-> "response", blocked |-> blocked, text |-> text, error |-> NoError]
Rejected(error) == [kind |-> "error", blocked |-> FALSE, text |-> EmptyString, error |-> error]

Returned(value) == [threw |-> FALSE, value |-> value, error |-> NoError]
Throw(error) == [threw |-> TRUE, value |-> Null, error |-> error]

GeminiOutcomes ==
    { Responded(FALSE, GeminiAnswerText), Responded(FALSE, GeminiRefusalText),
      Responded(FALSE, GeminiPartialText),
      Responded(TRUE, EmptyString), Responded(FALSE, EmptyString),
      Rejected(Http429Error), Rejected(RateLimitCodeError), Rejected(OtherError) }

OpenAIOutcomes ==
    { Responded(FALSE, OpenAIAnswerText), Responded(FALSE, GeminiRefusalText),
      Responded(FALSE, EmptyString), Responded(FALSE, Null),
      Rejected(Http429Error), Rejected(OtherError) }

\* ------------------------------------------------------------------------
\* KnowledgeSource: the identifiers are environment variables, "" when
\* unset; a fetch of the network returns a text or fails.
\* ------------------------------------------------------------------------
Unset == ""
Configs ==
    [GOOGLE_DOC_ID : {Unset, "doc-id"}, NOTION_PAGE_ID : {Unset, "page-id"},
     NOTION_API_KEY : {Unset, "secret"}, KNOWLEDGE_URL : {Unset, "https://kb"}]
AllConfigured ==
    [GOOGLE_DOC_ID |-> "doc-id", NOTION_PAGE_ID |-> "page-id",
     NOTION_API_KEY |-> "secret", KNOWLEDGE_URL |-> "https://kb"]

GoogleText == Str(<<"text of the Google document">>)
NotionText == Str(<<"text of the Notion page">>)
URLText == Str(<<"text behind the URL">>)
GoogleOutcomes == { Responded(FALSE, GoogleText), Responded(FALSE, EmptyString), Rejected(OtherError) }
NotionOutcomes == { Responded(FALSE, NotionText), Responded(FALSE, EmptyString), Rejected(OtherError) }
URLOutcomes == { Responded(FALSE, URLText), Responded(FALSE, EmptyString), Rejected(OtherError) }

\* Faulty variant: the fetcher without its test of the identifier.
getGoogleDocContent_noGuard(documentId, outcome) ==
    IF outcome.kind = "error"
    THEN Throw(Err(Str(<<"Could not retrieve the Google Docs document.">>), "none"))
    ELSE Returned(outcome.text)
getGoogleDocContent(documentId, outcome) ==
    IF documentId = Unset THEN Returned(EmptyString)
    ELSE IF outcome.kind = "error"
    THEN Throw(Err(Str(<<"Could not retrieve the Google Docs document.">>), "none"))
    ELSE Returned(outcome.text)

getNotionPageContent(pageId, apiKey, outcome) ==
    IF pageId = Unset \/ apiKey = Unset THEN Returned(EmptyString)
    ELSE IF outcome.kind = "error"
    THEN Throw(Err(Str(<<"Could not retrieve the Notion document.">>), "none"))
    ELSE Returned(outcome.text)

getURLContent(url, outcome) ==
    IF url = Unset THEN Returned(EmptyString)
    ELSE IF outcome.kind = "error"
    THEN Throw(Err(Str(<<"Could not retrieve content from the URL.">>), "none"))
    ELSE Returned(outcome.text)

\* p.catch(e => ""): what Promise.all collects from a fetch.
CatchEmpty(result) == IF result.threw THEN EmptyString ELSE result.value

FailureSentinel == Str(<<"Failed", " to index any documents. Please check the logs for errors.">>)
SuccessReport == Str(<<"All knowledge sources have been successfully indexed.">>)
StartsWith(text, prefix) == text.val # <<>> /\ text.val[1] = prefix

\* Faulty variants: a source that failed fails the whole call; only the
\* sections of the sources that returned text are replaced.
IndexedBlob_anyEmptyFails(old, googleContent, notionContent, urlContent) ==
    IF Falsy(googleContent) \/ Falsy(notionContent) \/ Falsy(urlContent)
    THEN FailureSentinel
    ELSE Str(<<"--- GOOGLE DOCS ---\n">> \o googleContent.val
             \o <<"\n\n--- NOTION ---\n">> \o notionContent.val
             \o <<"\n\n--- URL CONTENT ---\n">> \o urlContent.val)
IndexedBlob_inPlace(old, googleContent, notionContent, urlContent) ==
    IF Falsy(googleContent) /\ Falsy(notionContent) /\ Falsy(urlContent)
    THEN FailureSentinel
    ELSE IF Len(old.val) < 4 THEN
         Str(<<"--- GOOGLE DOCS ---\n">> \o googleContent.val
             \o <<"\n\n--- NOTION ---\n">> \o notionContent.val
             \o <<"\n\n--- URL CONTENT ---\n">> \o urlContent.val)
    ELSE LET n == CHOOSE i \in DOMAIN old.val : old.val[i] = "\n\n--- NOTION ---\n"
             u == CHOOSE i \in DOMAIN old.val : old.val[i] = "\n\n--- URL CONTENT ---\n"
         IN Str(<<"--- GOOGLE DOCS ---\n">>
                \o (IF Falsy(googleContent) THEN SubSeq(old.val, 2, n - 1) ELSE googleContent.val)
                \o <<"\n\n--- NOTION ---\n">>
                \o (IF Falsy(notionContent) THEN SubSeq(old.val, n + 1, u - 1) ELSE notionContent.val)
                \o <<"\n\n--- URL CONTENT ---\n">>
                \o (IF Falsy(urlContent) THEN SubSeq(old.val, u + 1, Len(old.val)) ELSE urlContent.val))
\* The value indexAll assigns to indexedKnowledge; it does not read the
\* old value.
IndexedBlob(old, googleContent, notionContent, urlContent) ==
    IF Falsy(googleContent) /\ Falsy(notionContent) /\ Falsy(urlContent)
    THEN FailureSentinel
    ELSE Str(<<"--- GOOGLE DOCS ---\n">> \o googleContent.val
             \o <<"\n\n--- NOTION ---\n">> \o notionContent.val
             \o <<"\n\n--- URL CONTENT ---\n">> \o urlContent.val)

\* Faulty variant: always the success message.
IndexReport_alwaysSuccess(blob) == SuccessReport
\* The value indexAll returns.
IndexReport(blob) == IF StartsWith(blob, "Failed") THEN blob ELSE SuccessReport

\* ------------------------------------------------------------------------
\* AIService
\* ------------------------------------------------------------------------
\* Faulty variants: only the error code is looked at; a blocked or empty
\* response counts as a rate limit.
isRateLimitError_codeOnly(error) == error.code = "rate_limit_exceeded"
isRateLimitError_anyGeminiFailure(error) ==
    \/ Includes(error.message, "429") \/ error.code = "rate_limit_exceeded"
    \/ (error.message.val # <<>> /\ error.message.val[1] \in
            {"Gemini response was blocked. Reason: ", "Gemini returned an empty response."})
isRateLimitError(error) ==
    Includes(error.message, "429") \/ error.code = "rate_limit_exceeded"

\* Faulty variants of the retry condition: the flag inverted, any error
\* retried, the flag forgotten.
ShouldFallback_inverted(error, useFallback) == isRateLimitError(error) /\ useFallback
ShouldFallback_anyError(error, useFallback) == ~useFallback
ShouldFallback_unbounded(error, useFallback) == isRateLimitError(error)
\* The condition of the retry in generateAnswer's catch block.
ShouldFallback(error, useFallback) == isRateLimitError(error) /\ ~useFallback

generateAnswerWithGemini(outcome) ==
    IF outcome.kind = "error" THEN Throw(outcome.error)
    ELSE IF outcome.blocked
         THEN Throw(Err(Str(<<"Gemini response was blocked. Reason: ", "SAFETY", ".">>), "none"))
    ELSE IF Falsy(outcome.text)
         THEN Throw(Err(Str(<<"Gemini returned an empty response.">>), "none"))
    ELSE Returned(outcome.text)

generateAnswerWithOpenAI(outcome) ==
    IF outcome.kind = "error" THEN Throw(outcome.error) ELSE Returned(outcome.text)

\* ------------------------------------------------------------------------
\* Suggestions: the model's text is a sequence of tokens; a quoted string
\* is one token.
\* ------------------------------------------------------------------------
QuotedTokens == {"\"A?\"", "\"B?\"", "\"C?\"", "\"D?\""}
Unquote(tok) ==
    CASE tok = "\"A?\"" -> "A?"
      [] tok = "\"B?\"" -> "B?"
      [] tok = "\"C?\"" -> "C?"
      [] tok = "\"D?\"" -> "D?"
      [] OTHER -> tok
\* A JSON number is one token; JSON.parse gives the number it denotes.
NumberTokens == {"1"}
JsonValues == QuotedTokens \cup NumberTokens

\* text.match(/\[\s*".*?"\s*(,\s*".*?"\s*)*\]/s): the leftmost "[" that is
\* followed by a quote and has, further on, a quote followed by "]"; the
\* match ends at the first such "]".  No match: <<>>.
ArrayMatch(toks) ==
    LET Ends(i) == { j \in (i + 2)..Len(toks) : toks[j] = "]" /\ toks[j - 1] \in QuotedTokens }
        Starts == { i \in 1..Len(toks) :
                      /\ toks[i] = "["
                      /\ i + 1 <= Len(toks)
                      /\ toks[i + 1] \in QuotedTokens
                      /\ Ends(i) # {} }
    IN IF Starts = {} THEN <<>>
       ELSE LET i == CHOOSE s \in Starts : \A o \in Starts : s <= o
                j == CHOOSE e \in Ends(i) : \A o \in Ends(i) : e <= o
            IN SubSeq(toks, i, j)

\* JSON.parse of the matched text: an array of JSON values separated by
\* commas, or a SyntaxError.
JsonWellFormed(m) ==
    /\ Len(m) >= 3
    /\ Len(m) % 2 = 1
    /\ \A i \in 2..(Len(m) - 1) :
          IF i % 2 = 0 THEN m[i] \in JsonValues ELSE m[i] = ","

JsonParse(m) == [n \in 1..((Len(m) - 1) \div 2) |-> Unquote(m[2 * n])]

generateSuggestionsResult(outcome) ==
    IF outcome.kind = "error" THEN <<>>
    ELSE IF Falsy(outcome.text) THEN <<>>
    ELSE LET m == ArrayMatch(outcome.text.val)
         IN IF m = <<>> THEN <<>>
            ELSE IF JsonWellFormed(m) THEN JsonParse(m) ELSE <<>>

SuggestionOutcomes ==
    { Responded(FALSE, Str(<<"Here you go: ", "[", "\"A?\"", ",", "\"B?\"", "]">>)),
      Responded(FALSE, Str(<<"I cannot suggest anything.">>)),
      Rejected(OtherError) }

\* The texts the model can answer a suggestion prompt with: a list of up to
\* MaxItems quoted strings with or without prose around it, and texts
\* without a list or with something else between the brackets.
ListTokens(items) ==
    [n \in 1..(2 * Len(items) + 1) |->
        IF n = 1 THEN "["
        ELSE IF n = 2 * Len(items) + 1 THEN "]"
        ELSE IF n % 2 = 0 THEN items[n \div 2] ELSE ","]
ItemLists == UNION { [1..k -> QuotedTokens] : k \in 1..MaxItems }
Prefixes == { <<>>, <<"Here you go: ">> }
Suffixes == { <<>>, <<" Let me know if you need more.">> }
ListTexts == { pre \o ListTokens(items) \o post :
                 pre \in Prefixes, items \in ItemLists, post \in Suffixes }
OtherTexts ==
    { <<"I cannot suggest anything.">>,
      <<"Here you go: ", "\"A?\"", ",", "\"B?\"">>,
      <<"[", "]">>,
      <<"[", "see above", "]">>,
      <<"[", "\"A?\"", ",", "]">>,
      <<"[", "\"A?\"", ",", "\"B?\"">>,
      <<"[", "\"A?\"", "\"B?\"", "]">>,
      <<"[", "\"A?\"", "and", "\"B?\"", "]", " I hope this helps.">>,
      <<"Here you go: ", "[", "\"A?\"", ",", "1", ",", "\"B?\"", "]">>,
      <<"[", "1", ",", "\"A?\"", "]">> }
SuggestionTextOutcomes ==
    { Responded(FALSE, Str(t)) : t \in ListTexts \cup OtherTexts }
    \cup { Responded(FALSE, EmptyString), Rejected(OtherError), Rejected(Http429Error) }

\* ------------------------------------------------------------------------
\* CONVERSATION_CACHE = new NodeCache({ stdTTL: 600 }): a cache entry is a
\* key, a value and the time t after which it is expired.
\* ------------------------------------------------------------------------
Expired(e, now) == e.t # 0 /\ e.t < now

\* Faulty variant: get without the expiry test.
CacheGet_ignoresExpiry(c, key, now) ==
    LET found == { e \in c : e.k = key }
    IN IF found = {} THEN <<>> ELSE << (CHOOSE e \in found : TRUE).v >>
\* Faulty variant: get without the test of the key.
CacheGet_anyKey(c, key, now) ==
    LET live == { e \in c : ~Expired(e, now) }
    IN IF live = {} THEN <<>> ELSE << (CHOOSE e \in live : TRUE).v >>
CacheGet(c, key, now) ==
    LET live == { e \in c : e.k = key /\ ~Expired(e, now) }
    IN IF live = {} THEN <<>> ELSE << (CHOOSE e \in live : TRUE).v >>

\* Faulty variant: a get that renews the expiry of the entry it returns.
CacheAfterGet_touch(c, key, now) ==
    { IF e.k = key /\ ~Expired(e, now) THEN [e EXCEPT !.t = now + stdTTL] ELSE e :
        e \in { x \in c : ~(x.k = key /\ Expired(x, now)) } }
\* get() deletes the entry it finds expired.
CacheAfterGet(c, key, now) == { e \in c : ~(e.k = key /\ Expired(e, now)) }

\* Faulty variant: set that renews the expiry of every entry.
CacheSet_refreshesAll(c, key, value, now) ==
    { [e EXCEPT !.t = now + stdTTL] : e \in { x \in c : x.k # key } }
    \cup { [k |-> key, v |-> value, t |-> now + stdTTL] }
\* Faulty variant: set that keeps the key's previous entry.
CacheSet_keepsOld(c, key, value, now) ==
    c \cup { [k |-> key, v |-> value, t |-> now + stdTTL] }
\* set() replaces the key's entry; its expiry is now + stdTTL.
CacheSet(c, key, value, now) ==
    { e \in c : e.k # key } \cup { [k |-> key, v |-> value, t |-> now + stdTTL] }

conversationId(userId, channelId) == <<"convo", userId, channelId>>
Keys == { conversationId(u, c) : u \in Users, c \in Channels }

\* ------------------------------------------------------------------------
\* Slack messages
\* ------------------------------------------------------------------------
Min(a, b) == IF a < b THEN a ELSE b
buildMessagePayload(text, suggestions) ==
    [text |-> text, shown |-> SubSeq(suggestions, 1, Min(5, Len(suggestions)))]

\* The two prompts are template strings: a prompt is the values it embeds.
BuildPrompt(previous, document, userQuestion) ==
    [kind |-> "answer", persona |-> currentPersona, previous |-> previous,
     document |-> document, question |-> userQuestion, answer |-> Null]

SuggestionPrompt(answer) ==
    [kind |-> "suggestions", persona |-> "", previous |-> <<>>,
     document |-> Null, question |-> "", answer |-> answer]

\* A provider call in flight or settled.  responds = FALSE: the provider
\* never settles the call.
Call(step, provider, p, responds) ==
    [step |-> step, provider |-> provider, prompt |-> p, responds |-> responds,
     status |-> "pending", text |-> Null, error |-> NoError]

\* The last call of the log has returned a value or thrown an error.
Settle(log, result) ==
    [log EXCEPT ![Len(log)].status = IF result.threw THEN "error" ELSE "ok",
                ![Len(log)].text = result.value,
                ![Len(log)].error = result.error]

\* ------------------------------------------------------------------------
\* State
\* ------------------------------------------------------------------------
VARIABLES
    config,             \* the environment variables of the process
    indexing,           \* where each indexAll task is suspended
    lastIndex,          \* history: the fetches and the result of the last
                        \* indexAll that finished, <<>> before the first
    running,            \* history: the suspended indexAll tasks in the order
                        \* they started, each with whether a task that
                        \* started after it has already finished
    indexedKnowledge,   \* the knowledge blob
    cache,              \* CONVERSATION_CACHE: a set of entries
    clock,              \* seconds
    ticks,              \* how many times the clock has advanced
    stats,              \* questionsAsked, fallbacksUsed
    pc,                 \* where each handleQuestion task is suspended
    req,                \* its arguments
    previousConversation,
    prompt,
    mainAnswer,
    suggestions,
    message,            \* the Slack message of the task: <<>> or <<payload>>
    calls,              \* the provider calls of the task, in order
    lastPut,            \* history: per key, the last set() and its time
    seen                \* history: lastPut and the clock at the task's get()

indexVars == <<config, indexing, lastIndex, running>>
vars == <<indexVars, indexedKnowledge, cache, clock, ticks, stats, pc, req,
          previousConversation, prompt, mainAnswer, suggestions, message,
          calls, lastPut, seen>>

\* A request is run by the first free task slot.
SlotBefore(g, h) == g = "h1" /\ h = "h2"

NoReq == [question |-> "", userId |-> "", channelId |-> "", documentOverride |-> Null]
NoPrompt == BuildPrompt(<<>>, Null, "")
Finished == {"done", "escaped"}

InitWith(cfg) ==
    /\ config = cfg
    /\ indexing = [r \in Indexers |-> "idle"]
    /\ lastIndex = <<>>
    /\ running = <<>>
    /\ indexedKnowledge = indexedKnowledgeInitial
    /\ cache = {}
    /\ clock = 0
    /\ ticks = 0
    /\ stats = [questionsAsked |-> 0, fallbacksUsed |-> 0]
    /\ pc = [h \in Handlers |-> "idle"]
    /\ req = [h \in Handlers |-> NoReq]
    /\ previousConversation = [h \in Handlers |-> <<>>]
    /\ prompt = [h \in Handlers |-> NoPrompt]
    /\ mainAnswer = [h \in Handlers |-> Null]
    /\ suggestions = [h \in Handlers |-> <<>>]
    /\ message = [h \in Handlers |-> <<>>]
    /\ calls = [h \in Handlers |-> <<>>]
    /\ lastPut = [k \in Keys |-> <<>>]
    /\ seen = [h \in Handlers |-> [at |-> 0, last |-> <<>>, reindexing |-> FALSE]]

Init == InitWith(AllConfigured)

\* ------------------------------------------------------------------------
\* indexAll
\* ------------------------------------------------------------------------
\* The /index command (or the startup) calls indexAll: the three fetchers
\* are started and Promise.all is awaited.
StartIndex(r) ==
    /\ indexing[r] = "idle"
    /\ indexing' = [indexing EXCEPT ![r] = "fetching"]
    /\ running' = Append(running, [id |-> r, overtaken |-> FALSE])
    /\ UNCHANGED <<config, lastIndex, indexedKnowledge, cache, clock, ticks,
                   stats, pc, req, previousConversation, prompt, mainAnswer,
                   suggestions, message, calls, lastPut, seen>>

\* History of the overlap of indexAll tasks: the position of task r in the
\* start order, whether a later-started task has finished during its run,
\* and the record after r finishes (r leaves; the tasks that started before
\* r have now been overtaken).
PositionOf(r) == CHOOSE i \in 1..Len(running) : running[i].id = r
Overtaken(r) == \E i \in 1..Len(running) : running[i].id = r /\ running[i].overtaken
RunningAfter(r) ==
    LET marked == [i \in 1..Len(running) |->
                      IF i < PositionOf(r)
                      THEN [running[i] EXCEPT !.overtaken = TRUE]
                      ELSE running[i]]
    IN SelectSeq(marked, LAMBDA e : e.id # r)

\* Faulty variant: the result of a task is dropped when a task that started
\* after it has already stored its own.
FinishIndex_newestStartWins(r, google, notion, url) ==
    /\ indexing[r] = "fetching"
    /\ LET fetches == << getGoogleDocContent(config.GOOGLE_DOC_ID, google),
                         getNotionPageContent(config.NOTION_PAGE_ID, config.NOTION_API_KEY, notion),
                         getURLContent(config.KNOWLEDGE_URL, url) >>
           results == [i \in 1..3 |-> CatchEmpty(fetches[i])]
           blob == IF Overtaken(r) THEN indexedKnowledge
                   ELSE IndexedBlob(indexedKnowledge, results[1], results[2], results[3])
       IN /\ indexedKnowledge' = blob
          /\ lastIndex' = <<[fetches |-> fetches, report |-> IndexReport(blob),
                              stale |-> Overtaken(r)]>>
    /\ indexing' = [indexing EXCEPT ![r] = "idle"]
    /\ running' = RunningAfter(r)
    /\ UNCHANGED <<config, cache, clock, ticks, stats, pc, req,
                   previousConversation, prompt, mainAnswer, suggestions,
                   message, calls, lastPut, seen>>

\* The three fetches have settled: indexAll assigns indexedKnowledge and
\* returns its report.
FinishIndex(r, google, notion, url) ==
    /\ indexing[r] = "fetching"
    /\ LET fetches == << getGoogleDocContent(config.GOOGLE_DOC_ID, google),
                         getNotionPageContent(config.NOTION_PAGE_ID, config.NOTION_API_KEY, notion),
                         getURLContent(config.KNOWLEDGE_URL, url) >>
           results == [i \in 1..3 |-> CatchEmpty(fetches[i])]
           blob == IndexedBlob(indexedKnowledge, results[1], results[2], results[3])
       IN /\ indexedKnowledge' = blob
          /\ lastIndex' = <<[fetches |-> fetches, report |-> IndexReport(blob),
                              stale |-> Overtaken(r)]>>
    /\ indexing' = [indexing EXCEPT ![r] = "idle"]
    /\ running' = RunningAfter(r)
    /\ UNCHANGED <<config, cache, clock, ticks, stats, pc, req,
                   previousConversation, prompt, mainAnswer, suggestions,
                   message, calls, lastPut, seen>>

\* ------------------------------------------------------------------------
\* handleQuestion
\* ------------------------------------------------------------------------
KeyOf(h) == conversationId(req[h].userId, req[h].channelId)

\* stats.questionsAsked++, saveStats(), then chat.postMessage is awaited.
StartQuestion(h, q, u, c, override) ==
    /\ pc[h] = "idle"
    /\ \A g \in Handlers : SlotBefore(g, h) => pc[g] # "idle"
    /\ stats.questionsAsked < MaxQuestions
    /\ stats' = [stats EXCEPT !.questionsAsked = @ + 1]
    /\ pc' = [pc EXCEPT ![h] = "posting"]
    /\ req' = [req EXCEPT ![h] = [question |-> q, userId |-> u, channelId |-> c,
                                  documentOverride |-> override]]
    /\ UNCHANGED <<indexVars, indexedKnowledge, cache, clock, ticks, previousConversation,
                   prompt, mainAnswer, suggestions, message, calls, lastPut, seen>>

\* chat.postMessage rejects: it is awaited outside the try block.
PostMessageFails(h) ==
    /\ pc[h] = "posting"
    /\ pc' = [pc EXCEPT ![h] = "escaped"]
    /\ UNCHANGED <<indexVars, indexedKnowledge, cache, clock, ticks, stats, req,
                   previousConversation, prompt, mainAnswer, suggestions,
                   message, calls, lastPut, seen>>

\* Faulty variant: the knowledge blob is read only when no indexAll is
\* suspended.
PostMessageOk_waitsForIndex(h, responds) ==
    /\ pc[h] = "posting"
    /\ \A r \in Indexers : indexing[r] = "idle"
    /\ LET key == KeyOf(h)
           previous == CacheGet(cache, key, clock)
           document == IF Falsy(req[h].documentOverride) THEN indexedKnowledge
                       ELSE req[h].documentOverride
           p == BuildPrompt(previous, document, req[h].question)
       IN /\ message' = [message EXCEPT ![h] = <<buildMessagePayload(ThinkingText, <<>>)>>]
          /\ cache' = CacheAfterGet(cache, key, clock)
          /\ previousConversation' = [previousConversation EXCEPT ![h] = previous]
          /\ seen' = [seen EXCEPT ![h] = [at |-> clock, last |-> lastPut[key],
                                            reindexing |-> \E r \in Indexers : indexing[r] = "fetching"]]
          /\ prompt' = [prompt EXCEPT ![h] = p]
          /\ calls' = [calls EXCEPT ![h] = <<Call("answer", "gemini", p, responds)>>]
    /\ pc' = [pc EXCEPT ![h] = "await_gemini"]
    /\ UNCHANGED <<indexVars, indexedKnowledge, clock, ticks, stats, req, mainAnswer,
                   suggestions, lastPut>>

\* The placeholder is posted; the cache is read, the prompt built and
\* generateAnswer(prompt) calls Gemini.
\* Faulty variant: a document override is stored as the knowledge blob.
PostMessageOk_storesOverride(h, responds) ==
    /\ pc[h] = "posting"
    /\ LET key == KeyOf(h)
           previous == CacheGet(cache, key, clock)
           document == IF Falsy(req[h].documentOverride) THEN indexedKnowledge
                       ELSE req[h].documentOverride
           p == BuildPrompt(previous, document, req[h].question)
       IN /\ message' = [message EXCEPT ![h] = <<buildMessagePayload(ThinkingText, <<>>)>>]
          /\ cache' = CacheAfterGet(cache, key, clock)
          /\ previousConversation' = [previousConversation EXCEPT ![h] = previous]
          /\ seen' = [seen EXCEPT ![h] = [at |-> clock, last |-> lastPut[key],
                                            reindexing |-> \E r \in Indexers : indexing[r] = "fetching"]]
          /\ prompt' = [prompt EXCEPT ![h] = p]
          /\ calls' = [calls EXCEPT ![h] = <<Call("answer", "gemini", p, responds)>>]
    /\ pc' = [pc EXCEPT ![h] = "await_gemini"]
    /\ indexedKnowledge' = IF Falsy(req[h].documentOverride) THEN indexedKnowledge
                           ELSE req[h].documentOverride
    /\ UNCHANGED <<indexVars, clock, ticks, stats, req, mainAnswer,
                   suggestions, lastPut>>

PostMessageOk(h, responds) ==
    /\ pc[h] = "posting"
    /\ LET key == KeyOf(h)
           previous == CacheGet(cache, key, clock)
           document == IF Falsy(req[h].documentOverride) THEN indexedKnowledge
                       ELSE req[h].documentOverride
           p == BuildPrompt(previous, document, req[h].question)
       IN /\ message' = [message EXCEPT ![h] = <<buildMessagePayload(ThinkingText, <<>>)>>]
          /\ cache' = CacheAfterGet(cache, key, clock)
          /\ previousConversation' = [previousConversation EXCEPT ![h] = previous]
          /\ seen' = [seen EXCEPT ![h] = [at |-> clock, last |-> lastPut[key],
                                            reindexing |-> \E r \in Indexers : indexing[r] = "fetching"]]
          /\ prompt' = [prompt EXCEPT ![h] = p]
          /\ calls' = [calls EXCEPT ![h] = <<Call("answer", "gemini", p, responds)>>]
    /\ pc' = [pc EXCEPT ![h] = "await_gemini"]
    /\ UNCHANGED <<indexVars, indexedKnowledge, clock, ticks, stats, req, mainAnswer,
                   suggestions, lastPut>>

\* app_mention with the suffix "from google_doc": the source is fetched and,
\* when it has content, handleQuestion is called with it as the override.
MentionWithSource(h, q, u, c, outcome) ==
    LET content == getGoogleDocContent(config.GOOGLE_DOC_ID, outcome)
    IN /\ ~content.threw
       /\ ~Falsy(content.value)
       /\ StartQuestion(h, q, u, c, content.value)

\* Faulty variant: the answer of an entry already in the cache is kept.
Complete_mergesEntry(h, answer, sugg, log) ==
    /\ LET old == CacheGet(cache, KeyOf(h), clock)
           entry == [question |-> req[h].question,
                     answer |-> IF old = <<>> THEN answer ELSE old[1].answer]
       IN /\ cache' = CacheSet(cache, KeyOf(h), entry, clock)
          /\ lastPut' = [lastPut EXCEPT ![KeyOf(h)] = <<[at |-> clock, v |-> entry]>>]
    /\ mainAnswer' = [mainAnswer EXCEPT ![h] = answer]
    /\ suggestions' = [suggestions EXCEPT ![h] = sugg]
    /\ calls' = [calls EXCEPT ![h] = log]
    /\ pc' = [pc EXCEPT ![h] = "await_update"]
\* Faulty variant: the reply is sent without the cache being written.
Complete_withoutSet(h, answer, sugg, log) ==
    /\ UNCHANGED <<cache, lastPut>>
    /\ mainAnswer' = [mainAnswer EXCEPT ![h] = answer]
    /\ suggestions' = [suggestions EXCEPT ![h] = sugg]
    /\ calls' = [calls EXCEPT ![h] = log]
    /\ pc' = [pc EXCEPT ![h] = "await_update"]
\* CONVERSATION_CACHE.set, buildMessagePayload, chat.update is awaited.
Complete(h, answer, sugg, log) ==
    /\ LET entry == [question |-> req[h].question, answer |-> answer]
       IN /\ cache' = CacheSet(cache, KeyOf(h), entry, clock)
          /\ lastPut' = [lastPut EXCEPT ![KeyOf(h)] = <<[at |-> clock, v |-> entry]>>]
    /\ mainAnswer' = [mainAnswer EXCEPT ![h] = answer]
    /\ suggestions' = [suggestions EXCEPT ![h] = sugg]
    /\ calls' = [calls EXCEPT ![h] = log]
    /\ pc' = [pc EXCEPT ![h] = "await_update"]

\* Faulty variant: a refusal is replied but not written to the cache.
AfterAnswer_refusalNotSaved(h, answer, log) ==
    IF answer.type = "null"
    THEN /\ mainAnswer' = [mainAnswer EXCEPT ![h] = answer]
         /\ calls' = [calls EXCEPT ![h] = log]
         /\ pc' = [pc EXCEPT ![h] = "await_critical"]
         /\ UNCHANGED <<cache, lastPut, suggestions>>
    ELSE IF ~Includes(answer, RefusalPhrase)
    THEN \E responds \in BOOLEAN :
            /\ mainAnswer' = [mainAnswer EXCEPT ![h] = answer]
            /\ calls' = [calls EXCEPT ![h] =
                   Append(log, Call("suggestions", "gemini", SuggestionPrompt(answer), responds))]
            /\ pc' = [pc EXCEPT ![h] = "await_suggest"]
            /\ UNCHANGED <<cache, lastPut, suggestions>>
    ELSE Complete_withoutSet(h, answer, <<>>, log)
\* handleQuestion from the return of generateAnswer to its next await.
AfterAnswer(h, answer, log) ==
    IF answer.type = "null"
    THEN \* mainAnswer.includes throws a TypeError: the catch block
         /\ mainAnswer' = [mainAnswer EXCEPT ![h] = answer]
         /\ calls' = [calls EXCEPT ![h] = log]
         /\ pc' = [pc EXCEPT ![h] = "await_critical"]
         /\ UNCHANGED <<cache, lastPut, suggestions>>
    ELSE IF ~Includes(answer, RefusalPhrase)
    THEN \E responds \in BOOLEAN :
            /\ mainAnswer' = [mainAnswer EXCEPT ![h] = answer]
            /\ calls' = [calls EXCEPT ![h] =
                   Append(log, Call("suggestions", "gemini", SuggestionPrompt(answer), responds))]
            /\ pc' = [pc EXCEPT ![h] = "await_suggest"]
            /\ UNCHANGED <<cache, lastPut, suggestions>>
    ELSE Complete(h, answer, <<>>, log)

\* The fallback branch of generateAnswer: generateAnswer(prompt, true).
CallFallback(h, log) ==
    \E responds \in BOOLEAN :
        /\ stats' = [stats EXCEPT !.fallbacksUsed = @ + 1]
        /\ calls' = [calls EXCEPT ![h] = Append(log, Call("answer", "openai", prompt[h], responds))]
        /\ pc' = [pc EXCEPT ![h] = "await_openai"]
        /\ UNCHANGED <<cache, lastPut, mainAnswer, suggestions>>

\* generateAnswer(prompt): the Gemini call settles.
GeminiResponds(h, outcome) ==
    /\ pc[h] = "await_gemini"
    /\ calls[h][Len(calls[h])].responds
    /\ LET r == generateAnswerWithGemini(outcome)
           log == Settle(calls[h], r)
       IN IF ~r.threw THEN AfterAnswer(h, r.value, log) /\ UNCHANGED stats
          ELSE IF ShouldFallback(r.error, FALSE) THEN CallFallback(h, log)
          ELSE AfterAnswer(h, ApologyText, log) /\ UNCHANGED stats
    /\ UNCHANGED <<indexVars, indexedKnowledge, clock, ticks, req, previousConversation,
                   prompt, message, seen>>

\* generateAnswer(prompt, true): the OpenAI call settles.
OpenAIResponds(h, outcome) ==
    /\ pc[h] = "await_openai"
    /\ calls[h][Len(calls[h])].responds
    /\ LET r == generateAnswerWithOpenAI(outcome)
           log == Settle(calls[h], r)
       IN IF ~r.threw THEN AfterAnswer(h, r.value, log) /\ UNCHANGED stats
          ELSE IF ShouldFallback(r.error, TRUE) THEN CallFallback(h, log)
          ELSE AfterAnswer(h, ApologyText, log) /\ UNCHANGED stats
    /\ UNCHANGED <<indexVars, indexedKnowledge, clock, ticks, req, previousConversation,
                   prompt, message, seen>>

\* Faulty variant: an error of the suggestion call reaches handleQuestion.
SuggestionsRespond_propagates(h, outcome) ==
    /\ pc[h] = "await_suggest"
    /\ calls[h][Len(calls[h])].responds
    /\ LET r == IF outcome.kind = "error" THEN Throw(outcome.error) ELSE Returned(outcome.text)
       IN IF r.threw
          THEN /\ calls' = [calls EXCEPT ![h] = Settle(calls[h], r)]
               /\ pc' = [pc EXCEPT ![h] = "await_critical"]
               /\ UNCHANGED <<cache, lastPut, mainAnswer, suggestions>>
          ELSE Complete(h, mainAnswer[h], generateSuggestionsResult(outcome), Settle(calls[h], r))
    /\ UNCHANGED <<indexVars, indexedKnowledge, clock, ticks, stats, req,
                   previousConversation, prompt, message, seen>>
\* generateSuggestions: the Gemini call settles; nothing it throws escapes.
SuggestionsRespond(h, outcome) ==
    /\ pc[h] = "await_suggest"
    /\ calls[h][Len(calls[h])].responds
    /\ LET r == IF outcome.kind = "error" THEN Throw(outcome.error) ELSE Returned(outcome.text)
       IN Complete(h, mainAnswer[h], generateSuggestionsResult(outcome), Settle(calls[h], r))
    /\ UNCHANGED <<indexVars, indexedKnowledge, clock, ticks, stats, req,
                   previousConversation, prompt, message, seen>>

\* chat.update with the answer payload.
UpdateOk(h) ==
    /\ pc[h] = "await_update"
    /\ message' = [message EXCEPT ![h] = <<buildMessagePayload(mainAnswer[h], suggestions[h])>>]
    /\ pc' = [pc EXCEPT ![h] = "done"]
    /\ UNCHANGED <<indexVars, indexedKnowledge, cache, clock, ticks, stats, req,
                   previousConversation, prompt, mainAnswer, suggestions,
                   calls, lastPut, seen>>

\* chat.update rejects: the catch block updates with the critical error.
UpdateFails(h) ==
    /\ pc[h] = "await_update"
    /\ pc' = [pc EXCEPT ![h] = "await_critical"]
    /\ UNCHANGED <<indexVars, indexedKnowledge, cache, clock, ticks, stats, req,
                   previousConversation, prompt, mainAnswer, suggestions,
                   message, calls, lastPut, seen>>

CriticalOk(h) ==
    /\ pc[h] = "await_critical"
    /\ message' = [message EXCEPT ![h] = <<buildMessagePayload(CriticalErrorText, <<>>)>>]
    /\ pc' = [pc EXCEPT ![h] = "done"]
    /\ UNCHANGED <<indexVars, indexedKnowledge, cache, clock, ticks, stats, req,
                   previousConversation, prompt, mainAnswer, suggestions,
                   calls, lastPut, seen>>

\* chat.update rejects inside the catch block.
CriticalFails(h) ==
    /\ pc[h] = "await_critical"
    /\ pc' = [pc EXCEPT ![h] = "escaped"]
    /\ UNCHANGED <<indexVars, indexedKnowledge, cache, clock, ticks, stats, req,
                   previousConversation, prompt, mainAnswer, suggestions,
                   message, calls, lastPut, seen>>

\* handleQuestion has returned or thrown: its locals are gone.
Return(h) ==
    /\ pc[h] \in Finished
    /\ pc' = [pc EXCEPT ![h] = "idle"]
    /\ req' = [req EXCEPT ![h] = NoReq]
    /\ previousConversation' = [previousConversation EXCEPT ![h] = <<>>]
    /\ prompt' = [prompt EXCEPT ![h] = NoPrompt]
    /\ mainAnswer' = [mainAnswer EXCEPT ![h] = Null]
    /\ suggestions' = [suggestions EXCEPT ![h] = <<>>]
    /\ message' = [message EXCEPT ![h] = <<>>]
    /\ calls' = [calls EXCEPT ![h] = <<>>]
    /\ seen' = [seen EXCEPT ![h] = [at |-> 0, last |-> <<>>, reindexing |-> FALSE]]
    /\ UNCHANGED <<indexVars, indexedKnowledge, cache, clock, ticks, stats, lastPut>>

\* ------------------------------------------------------------------------
\* Time and the cache's periodic check
\* ------------------------------------------------------------------------
Tick(d) ==
    /\ ticks < MaxTicks
    /\ ticks' = ticks + 1
    /\ clock' = clock + d
    /\ UNCHANGED <<indexVars, indexedKnowledge, cache, stats, pc, req,
                   previousConversation, prompt, mainAnswer, suggestions,
                   message, calls, lastPut, seen>>

checkData ==
    /\ \E e \in cache : Expired(e, clock)
    /\ cache' = { e \in cache : ~Expired(e, clock) }
    /\ UNCHANGED <<indexVars, indexedKnowledge, clock, ticks, stats, pc, req,
                   previousConversation, prompt, mainAnswer, suggestions,
                   message, calls, lastPut, seen>>

\* ------------------------------------------------------------------------
\* Spec: one request at a time, every outcome of Slack and of the providers.
\* ------------------------------------------------------------------------
Next ==
    \/ \E q \in Questions, u \in Users, c \in Channels,
          override \in {Null, OverrideDocument} : StartQuestion("h1", q, u, c, override)
    \/ \E h \in Handlers : PostMessageFails(h)
    \/ \E h \in Handlers, responds \in BOOLEAN : PostMessageOk(h, responds)
    \/ \E h \in Handlers, outcome \in GeminiOutcomes : GeminiResponds(h, outcome)
    \/ \E h \in Handlers, outcome \in OpenAIOutcomes : OpenAIResponds(h, outcome)
    \/ \E h \in Handlers, outcome \in SuggestionOutcomes : SuggestionsRespond(h, outcome)
    \/ \E h \in Handlers : UpdateOk(h)
    \/ \E h \in Handlers : UpdateFails(h)
    \/ \E h \in Handlers : CriticalOk(h)
    \/ \E h \in Handlers : CriticalFails(h)
    \/ \E h \in Handlers : Return(h)

Spec == Init /\ [][Next]_vars

\* ------------------------------------------------------------------------
\* CacheSpec: concurrent requests while time passes; Gemini answers every
\* question with the refusal phrase and Slack accepts every message.
\* ------------------------------------------------------------------------
CacheNext ==
    \/ \E h \in Handlers, q \in Questions, u \in Users, c \in Channels :
          stats.questionsAsked < MaxCacheQuestions /\ StartQuestion(h, q, u, c, Null)
    \/ \E h \in Handlers : PostMessageOk(h, TRUE)
    \/ \E h \in Handlers : GeminiResponds(h, Responded(FALSE, GeminiRefusalText))
    \/ \E h \in Handlers : UpdateOk(h)
    \/ \E h \in Handlers : Return(h)
    \/ \E d \in TickSteps : Tick(d)
    \/ checkData

CacheSpec == Init /\ [][CacheNext]_vars

\* ------------------------------------------------------------------------
\* SuggestSpec: one request at a time that Gemini answers; the suggestion
\* prompt is answered with any of the suggestion texts.
\* ------------------------------------------------------------------------
SuggestNext ==
    \/ stats.questionsAsked < MaxSuggestQuestions /\ StartQuestion("h1", "q1", "U1", "C1", Null)
    \/ PostMessageOk("h1", TRUE)
    \/ GeminiResponds("h1", Responded(FALSE, GeminiAnswerText))
    \/ \E outcome \in SuggestionTextOutcomes : SuggestionsRespond("h1", outcome)
    \/ UpdateOk("h1")
    \/ UpdateFails("h1")
    \/ CriticalOk("h1")
    \/ Return("h1")

SuggestSpec == Init /\ [][SuggestNext]_vars

\* ------------------------------------------------------------------------
\* RaceSpec: overlapping questions of one user in one channel, answered
\* with different texts; the suggestion call fails.
\* ------------------------------------------------------------------------
RaceNext ==
    \/ \E h \in Handlers, q \in Questions :
          stats.questionsAsked < MaxRaceQuestions /\ StartQuestion(h, q, "U1", "C1", Null)
    \/ \E h \in Handlers : PostMessageOk(h, TRUE)
    \/ \E h \in Handlers, text \in {GeminiAnswerText, GeminiRefusalText, GeminiPartialText} :
          GeminiResponds(h, Responded(FALSE, text))
    \/ \E h \in Handlers : SuggestionsRespond(h, Rejected(OtherError))
    \/ \E h \in Handlers : UpdateOk(h)
    \/ \E h \in Handlers : Return(h)

RaceSpec == Init /\ [][RaceNext]_vars

\* Questions, with and without a document override, one after the other
\* while /index runs.
FrameNext ==
    \/ \E r \in Indexers : StartIndex(r)
    \/ \E r \in Indexers, google \in GoogleOutcomes :
          FinishIndex(r, google, Responded(FALSE, NotionText), Rejected(OtherError))
    \/ stats.questionsAsked < MaxFrameQuestions /\ StartQuestion("h1", "q1", "U1", "C1", Null)
    \/ \E outcome \in GoogleOutcomes :
          stats.questionsAsked < MaxFrameQuestions
              /\ MentionWithSource("h1", "q2", "U1", "C1", outcome)
    \/ PostMessageOk("h1", TRUE)
    \/ GeminiResponds("h1", Responded(FALSE, GeminiRefusalText))
    \/ UpdateOk("h1")
    \/ Return("h1")

FrameSpec == Init /\ [][FrameNext]_vars

\* ------------------------------------------------------------------------
\* IndexSpec: /index commands that overlap, under every configuration and
\* every outcome of the fetches, while questions are read and answered.
\* ------------------------------------------------------------------------
IndexInit == \E cfg \in Configs : InitWith(cfg)

IndexNext ==
    \/ \E r \in Indexers : StartIndex(r)
    \/ \E r \in Indexers, google \in GoogleOutcomes, notion \in NotionOutcomes,
          url \in URLOutcomes : FinishIndex(r, google, notion, url)
    \/ stats.questionsAsked < MaxIndexQuestions /\ StartQuestion("h1", "q1", "U1", "C1", Null)
    \/ PostMessageOk("h1", TRUE)
    \/ GeminiResponds("h1", Responded(FALSE, GeminiRefusalText))

IndexSpec == IndexInit /\ [][IndexNext]_vars

\* ------------------------------------------------------------------------
\* Properties
\* ------------------------------------------------------------------------
CallsOf(h, step, provider) ==
    { i \in DOMAIN calls[h] : calls[h][i].step = step /\ calls[h][i].provider = provider }

\* A failure that indicates HTTP 429 or carries the rate-limit error code.
RateLimitFailure(call) ==
    call.status = "error" /\ call.error \in {Http429Error, RateLimitCodeError}
OtherFailure(call) == call.status = "error" /\ ~RateLimitFailure(call)

AnswerReturned(h) == calls[h] # <<>> /\ pc[h] \notin {"await_gemini", "await_openai"}
Awaiting == {"await_gemini", "await_openai", "await_suggest"}

\* C1: when Gemini fails the answer prompt with a rate-limit error, OpenAI is
\* called exactly once in the invocation, with the prompt Gemini was given,
\* and when that call succeeds its text is the answer.
C1_FallbackAnswers ==
    \A h \in Handlers :
        (calls[h] # <<>> /\ RateLimitFailure(calls[h][1])) =>
            /\ Cardinality({ i \in DOMAIN calls[h] : calls[h][i].provider = "openai" }) = 1
            /\ calls[h][2].provider = "openai"
            /\ calls[h][2].prompt = calls[h][1].prompt
            /\ calls[h][2].prompt = prompt[h]
            /\ (calls[h][2].status = "ok" => mainAnswer[h] = calls[h][2].text)

C1_Witness ==
    \E h \in Handlers :
        /\ pc[h] = "done"
        /\ RateLimitFailure(calls[h][1])
        /\ calls[h][2].status = "ok"
        /\ mainAnswer[h] = OpenAIAnswerText
        /\ message[h][1].text = OpenAIAnswerText

C3_ApologySkipsSuggestions ==
    \A h \in Handlers :
        mainAnswer[h] = ApologyText =>
            /\ \A i \in DOMAIN calls[h] : calls[h][i].step # "suggestions"
            /\ suggestions[h] = <<>>

\* C4: an invocation whose answer is the apology leaves the cache entry of
\* its conversation as it found it.
C4_ApologyNotCommitted ==
    \A h \in Handlers :
        (pc[h] \in {"await_update", "done"} /\ mainAnswer[h] = ApologyText) =>
            CacheGet(cache, KeyOf(h), clock) = previousConversation[h]

\* C5: one generateAnswer call invokes Gemini at most once and OpenAI at most
\* once; when OpenAI fails too, no further call is made and the apology is
\* returned.
C5_OneShotFallback ==
    \A h \in Handlers :
        /\ Cardinality(CallsOf(h, "answer", "gemini")) <= 1
        /\ Cardinality(CallsOf(h, "answer", "openai")) <= 1
        /\ \A i \in CallsOf(h, "answer", "openai") :
              calls[h][i].status = "error" =>
                  /\ AnswerReturned(h)
                  /\ mainAnswer[h] = ApologyText

C5_Witness ==
    \E h \in Handlers :
        /\ Len(calls[h]) >= 2
        /\ RateLimitFailure(calls[h][1])
        /\ calls[h][2].provider = "openai"
        /\ RateLimitFailure(calls[h][2])
        /\ mainAnswer[h] = ApologyText
        /\ pc[h] = "done"

\* C6: no invocation ends with an exception escaping handleQuestion, and one
\* that ends has replied with a non-empty text that is not the placeholder.
C6_AlwaysReplies ==
    \A h \in Handlers :
        /\ pc[h] # "escaped"
        /\ pc[h] = "done" =>
              /\ message[h] # <<>>
              /\ ~Falsy(message[h][1].text)
              /\ message[h][1].text # ThinkingText

\* C7: a task that awaits a provider call can always take a step: the
\* provider's response or a timeout.
HandlerStep(h) ==
    \/ \E outcome \in GeminiOutcomes : GeminiResponds(h, outcome)
    \/ \E outcome \in OpenAIOutcomes : OpenAIResponds(h, outcome)
    \/ \E outcome \in SuggestionOutcomes : SuggestionsRespond(h, outcome)

C7_ProviderCallsTimeOut ==
    \A h \in Handlers : pc[h] \in Awaiting => ENABLED HandlerStep(h)

\* C8: a get at the time of the last put of its key returns the entry that
\* was put; a get more than stdTTL after the last put returns nothing.
C8_PutThenGet ==
    \A h \in Handlers :
        seen[h].last # <<>> =>
            /\ seen[h].at = seen[h].last[1].at
                  => previousConversation[h] = <<seen[h].last[1].v>>
            /\ seen[h].at - seen[h].last[1].at > stdTTL
                  => previousConversation[h] = <<>>

C8_Witness ==
    \E h \in Handlers :
        /\ pc[h] = "await_gemini"
        /\ seen[h].last # <<>>
        /\ seen[h].at = seen[h].last[1].at
        /\ seen[h].at > 0
        /\ previousConversation[h] = <<seen[h].last[1].v>>

\* C9: an entry that a get returns was last put at most stdTTL before the
\* get, and no entry's expiry is later than its key's last put plus stdTTL:
\* gets do not extend it.
C9_NeverPastTTL ==
    /\ \A h \in Handlers :
          previousConversation[h] # <<>> =>
              /\ seen[h].last # <<>>
              /\ seen[h].at - seen[h].last[1].at <= stdTTL
    /\ \A e \in cache :
          /\ lastPut[e.k] # <<>>
          /\ e.t <= lastPut[e.k][1].at + stdTTL

C9_Witness ==
    \E h \in Handlers :
        /\ previousConversation[h] # <<>>
        /\ seen[h].at - seen[h].last[1].at = stdTTL
        /\ clock > seen[h].last[1].at + stdTTL
        /\ \E e \in cache : e.k = KeyOf(h) /\ e.t = seen[h].last[1].at + stdTTL

\* C10: the cache holds at most one entry per key, and it is the value of
\* the key's last put with the expiry of that put, its time plus stdTTL.
C10_OneEntryPerKey ==
    \A k \in Keys :
        LET entries == { e \in cache : e.k = k }
        IN /\ Cardinality(entries) <= 1
           /\ \A e \in entries :
                 /\ lastPut[k] # <<>>
                 /\ e.v = lastPut[k][1].v
                 /\ e.t = lastPut[k][1].at + stdTTL

C10_Witness ==
    \E h \in Handlers :
        /\ pc[h] \in {"await_update", "done"}
        /\ previousConversation[h] # <<>>
        /\ \E e \in cache :
              /\ e.k = KeyOf(h)
              /\ e.v.question # previousConversation[h][1].question
              /\ e.t > seen[h].last[1].at + stdTTL
              /\ e.t = clock + stdTTL

\* ------------------------------------------------------------------------
\* Suggestion lists
\* ------------------------------------------------------------------------
\* The suggestion call of the task has settled.
SuggestionStepDone(h) ==
    /\ calls[h] # <<>>
    /\ calls[h][Len(calls[h])].step = "suggestions"
    /\ calls[h][Len(calls[h])].status # "pending"
SuggestionText(h) == calls[h][Len(calls[h])].text.val

\* The first bracketed part of a text: from its first "[" to the first "]"
\* after it; <<>> when there is none.
Bracketed(toks) ==
    LET Opens == { i \in DOMAIN toks : toks[i] = "[" }
    IN IF Opens = {} THEN <<>>
       ELSE LET i == CHOOSE o \in Opens : \A x \in Opens : o <= x
                Closes == { j \in DOMAIN toks : j > i /\ toks[j] = "]" }
            IN IF Closes = {} THEN <<>>
               ELSE SubSeq(toks, i, CHOOSE c \in Closes : \A x \in Closes : c <= x)

\* A well-formed list of quoted strings: [ "..." , "..." , ... ].
QuotedList(b) ==
    /\ Len(b) >= 3
    /\ Len(b) % 2 = 1
    /\ b[1] = "[" /\ b[Len(b)] = "]"
    /\ \A i \in 2..(Len(b) - 1) :
          IF i % 2 = 0 THEN b[i] \in QuotedTokens ELSE b[i] = ","
ItemsOf(b) == [n \in 1..((Len(b) - 1) \div 2) |-> Unquote(b[2 * n])]

NoTwoEqual(s) == \A i, j \in DOMAIN s : i # j => s[i] # s[j]
RECURSIVE Dedup(_)
Dedup(s) ==
    IF s = <<>> THEN <<>>
    ELSE LET r == Dedup(SubSeq(s, 1, Len(s) - 1))
             x == s[Len(s)]
         IN IF \E i \in DOMAIN r : r[i] = x THEN r ELSE Append(r, x)
FirstThree(s) == SubSeq(s, 1, Min(3, Len(s)))

\* C11: the suggestion list of an invocation, and the list its message
\* shows, have at most 3 items and no two equal items.
C11_AtMostThreeDistinct ==
    \A h \in Handlers :
        /\ Len(suggestions[h]) <= 3
        /\ NoTwoEqual(suggestions[h])
        /\ message[h] # <<>> =>
              /\ Len(message[h][1].shown) <= 3
              /\ NoTwoEqual(message[h][1].shown)

\* C12: when the text answered to the suggestion prompt has no bracketed
\* part, or its bracketed part is not a well-formed list of quoted strings,
\* the suggestion list is empty and the invocation goes on to its reply.
C12_NoListGivesEmpty ==
    \A h \in Handlers :
        (/\ SuggestionStepDone(h)
         /\ calls[h][Len(calls[h])].status = "ok"
         /\ ~QuotedList(Bracketed(SuggestionText(h)))) =>
            /\ suggestions[h] = <<>>
            /\ pc[h] # "idle"

\* C13: when the text answered to the suggestion prompt holds a well-formed
\* list of quoted strings, with or without prose around it, the suggestion
\* list is the list's items without repetitions, in first-seen order, cut
\* to the first 3.
C13_DedupFirstThree ==
    \A h \in Handlers :
        (/\ SuggestionStepDone(h)
         /\ calls[h][Len(calls[h])].status = "ok"
         /\ QuotedList(Bracketed(SuggestionText(h)))) =>
            suggestions[h] = FirstThree(Dedup(ItemsOf(Bracketed(SuggestionText(h)))))

\* ------------------------------------------------------------------------
\* Reindexing
\* ------------------------------------------------------------------------
\* A fetch that failed or returned the empty text.
FetchEmptyOrFailed(f) == f.threw \/ f.value.val = <<>>
\* What a source contributes: its text, nothing when it failed.
Contribution(f) == IF f.threw THEN <<>> ELSE f.value.val
LabeledSections(fetches) ==
    Str(<<"--- GOOGLE DOCS ---\n">> \o Contribution(fetches[1])
        \o <<"\n\n--- NOTION ---\n">> \o Contribution(fetches[2])
        \o <<"\n\n--- URL CONTENT ---\n">> \o Contribution(fetches[3]))
IsLabeled(blob) == Len(blob.val) >= 4 /\ blob.val[1] = "--- GOOGLE DOCS ---\n"

\* C14: after an indexAll whose three fetches all failed or returned the
\* empty text, the blob is the failure sentinel and the call returned it;
\* an indexAll returns the sentinel in that case only, and the success
\* message otherwise.
C14_AllEmptyFails ==
    lastIndex # <<>> =>
        LET f == lastIndex[1].fetches
            allEmpty == \A i \in 1..3 : FetchEmptyOrFailed(f[i])
        IN /\ allEmpty => indexedKnowledge = FailureSentinel
           /\ allEmpty => lastIndex[1].report = FailureSentinel
           /\ ~allEmpty => lastIndex[1].report = SuccessReport

C14_Witness ==
    /\ lastIndex # <<>>
    /\ \A i \in 1..3 : FetchEmptyOrFailed(lastIndex[1].fetches[i])
    /\ \E i \in 1..3 : lastIndex[1].fetches[i].threw
    /\ indexedKnowledge = FailureSentinel
    /\ lastIndex[1].report = FailureSentinel
    /\ pc["h1"] = "await_gemini"
    /\ IsLabeled(prompt["h1"].document)

\* C15: after an indexAll in which a source returned text, the blob is the
\* three labeled sections in the order Google Docs, Notion, URL, each with
\* the text of its source or nothing for a source that failed or was
\* empty, and the call returned the success message.
C15_PartialFailureSucceeds ==
    lastIndex # <<>> =>
        LET f == lastIndex[1].fetches
        IN (\E i \in 1..3 : ~FetchEmptyOrFailed(f[i])) =>
              /\ indexedKnowledge = LabeledSections(f)
              /\ lastIndex[1].report = SuccessReport

C15_Witness ==
    /\ lastIndex # <<>>
    /\ lastIndex[1].fetches[1].threw
    /\ lastIndex[1].fetches[2] = Returned(NotionText)
    /\ lastIndex[1].fetches[3] = Returned(EmptyString)
    /\ config.KNOWLEDGE_URL # Unset
    /\ indexedKnowledge = Str(<<"--- GOOGLE DOCS ---\n", "\n\n--- NOTION ---\n",
                                "text of the Notion page", "\n\n--- URL CONTENT ---\n">>)
    /\ lastIndex[1].report = SuccessReport

\* C16: the fetcher of a source whose identifier is unset returns the empty
\* text and does not throw, and indexAll uses it as an empty contribution.
C16_UnconfiguredIsEmpty ==
    lastIndex # <<>> =>
        LET f == lastIndex[1].fetches
        IN /\ config.GOOGLE_DOC_ID = Unset => f[1] = Returned(EmptyString)
           /\ config.NOTION_PAGE_ID = Unset => f[2] = Returned(EmptyString)
           /\ config.KNOWLEDGE_URL = Unset => f[3] = Returned(EmptyString)
           /\ indexedKnowledge =
                 IF \A i \in 1..3 : FetchEmptyOrFailed(f[i]) THEN FailureSentinel
                 ELSE LabeledSections(f)

C16_Witness ==
    /\ config.GOOGLE_DOC_ID = Unset
    /\ config.KNOWLEDGE_URL = Unset
    /\ lastIndex # <<>>
    /\ lastIndex[1].fetches[1] = Returned(EmptyString)
    /\ lastIndex[1].fetches[2] = Returned(NotionText)
    /\ lastIndex[1].fetches[3] = Returned(EmptyString)
    /\ IsLabeled(indexedKnowledge)
    /\ lastIndex[1].report = SuccessReport

\* C17: the blob is the initial placeholder until an indexAll finishes,
\* then the failure sentinel or the labeled sections of the fetches of the
\* one indexAll that finished last; the document a question was given is
\* one of these complete values.
CompleteBlobs ==
    { indexedKnowledgeInitial, FailureSentinel }
    \cup { LabeledSections(<<Returned(g), Returned(n), Returned(u)>>) :
             g \in {GoogleText, EmptyString}, n \in {NotionText, EmptyString},
             u \in {URLText, EmptyString} }

C17_BlobFromOneCall ==
    /\ lastIndex = <<>> => indexedKnowledge = indexedKnowledgeInitial
    /\ lastIndex # <<>> =>
          indexedKnowledge \in {FailureSentinel, LabeledSections(lastIndex[1].fetches)}
    /\ indexedKnowledge \in CompleteBlobs
    /\ indexedKnowledge # LabeledSections(<<Returned(EmptyString), Returned(EmptyString), Returned(EmptyString)>>)
    /\ \A h \in Handlers :
          pc[h] \notin {"idle", "posting"} => prompt[h].document \in CompleteBlobs

C17_Witness ==
    /\ \A r \in Indexers : indexing[r] = "fetching"
    /\ lastIndex # <<>>
    /\ lastIndex[1].fetches[1] = Returned(GoogleText)
    /\ lastIndex[1].fetches[2].threw
    /\ indexedKnowledge = LabeledSections(lastIndex[1].fetches)
    /\ pc["h1"] = "await_gemini"
    /\ IsLabeled(prompt["h1"].document)
    /\ prompt["h1"].document # indexedKnowledge

\* ------------------------------------------------------------------------
\* The suggestion step within an invocation
\* ------------------------------------------------------------------------
\* The entry the invocation writes to the cache.
OwnEntry(h) == [question |-> req[h].question, answer |-> mainAnswer[h]]
Replied(h) ==
    \/ pc[h] = "await_update"
    \/ pc[h] = "done" /\ message[h] # <<>> /\ message[h][1].text = mainAnswer[h]

\* C18: every answer call of an invocation has settled before its
\* suggestion call is made, and the suggestion prompt holds the answer; the
\* cache is not written while the answer is awaited, and it holds the
\* question and the answer when the reply is sent.
C18_AnswerThenSuggestThenSet ==
    \A h \in Handlers :
        /\ \A i \in DOMAIN calls[h] :
              calls[h][i].step = "suggestions" =>
                  /\ i > 1
                  /\ \A j \in 1..(i - 1) :
                        calls[h][j].step = "answer" /\ calls[h][j].status # "pending"
                  /\ calls[h][i].prompt.answer = mainAnswer[h]
        /\ pc[h] \in {"await_gemini", "await_openai", "await_suggest"} =>
              lastPut[KeyOf(h)] = seen[h].last
        /\ Replied(h) =>
              /\ mainAnswer[h] # Null
              /\ lastPut[KeyOf(h)] = <<[at |-> clock, v |-> OwnEntry(h)]>>
              /\ CacheGet(cache, KeyOf(h), clock) = <<OwnEntry(h)>>

C18_Witness ==
    \E h \in Handlers :
        /\ pc[h] = "done"
        /\ Len(calls[h]) = 3
        /\ calls[h][2].provider = "openai" /\ calls[h][2].status = "ok"
        /\ calls[h][3].step = "suggestions" /\ calls[h][3].status = "ok"
        /\ calls[h][3].prompt.answer = OpenAIAnswerText
        /\ message[h][1].text = OpenAIAnswerText
        /\ seen[h].last # <<>>
        /\ seen[h].last[1].v # OwnEntry(h)
        /\ CacheGet(cache, KeyOf(h), clock) = <<OwnEntry(h)>>

\* C19: when Gemini fails the suggestion prompt with a rate-limit error,
\* the next call of the invocation is an OpenAI call with that suggestion
\* prompt, and it is the only OpenAI call for suggestions.
C19_SuggestionFallback ==
    \A h \in Handlers :
        \A i \in CallsOf(h, "suggestions", "gemini") :
            RateLimitFailure(calls[h][i]) =>
                /\ Len(calls[h]) > i
                /\ calls[h][i + 1].provider = "openai"
                /\ calls[h][i + 1].prompt = calls[h][i].prompt
                /\ Cardinality(CallsOf(h, "suggestions", "openai")) = 1

\* A text that cannot be parsed as a list: it has no bracketed part, or
\* its bracketed part is not values separated by commas.
Unparsable(toks) ==
    LET b == Bracketed(toks)
    IN ~(/\ Len(b) >= 3
         /\ Len(b) % 2 = 1
         /\ \A i \in 2..(Len(b) - 1) :
               IF i % 2 = 0 THEN b[i] \in JsonValues ELSE b[i] = ",")
SuggestionStepFailed(h) ==
    /\ SuggestionStepDone(h)
    /\ \/ calls[h][Len(calls[h])].status = "error"
       \/ Unparsable(SuggestionText(h))

\* C20: when the suggestion call fails or its text cannot be parsed, the
\* invocation goes on to its reply with the answer of the answer step and
\* an empty suggestion list, and the cache holds the question and that
\* answer.
C20_SuggestionFailureContained ==
    \A h \in Handlers :
        SuggestionStepFailed(h) =>
            /\ pc[h] \in {"await_update", "done", "await_critical"}
            /\ mainAnswer[h] = calls[h][Len(calls[h]) - 1].text
            /\ suggestions[h] = <<>>
            /\ CacheGet(cache, KeyOf(h), clock) = <<[question |-> req[h].question,
                                                      answer |-> calls[h][Len(calls[h]) - 1].text]>>
            /\ lastPut[KeyOf(h)] = <<[at |-> clock, v |-> OwnEntry(h)]>>
            /\ (pc[h] = "done" /\ message[h][1].text # CriticalErrorText) =>
                  message[h][1] = [text |-> calls[h][Len(calls[h]) - 1].text, shown |-> <<>>]

C20_Witness ==
    \E h \in Handlers :
        /\ pc[h] = "done"
        /\ SuggestionStepDone(h)
        /\ calls[h][Len(calls[h])].status = "error"
        /\ mainAnswer[h] = GeminiAnswerText
        /\ message[h][1] = [text |-> GeminiAnswerText, shown |-> <<>>]
        /\ CacheGet(cache, KeyOf(h), clock) = <<[question |-> req[h].question, answer |-> GeminiAnswerText]>>

\* ------------------------------------------------------------------------
\* Refusals
\* ------------------------------------------------------------------------
SuggestionCalls(h) == { i \in DOMAIN calls[h] : calls[h][i].step = "suggestions" }
\* The answer step has returned a text a provider produced, and it is not
\* the refusal.
RealAnswer(h) ==
    /\ AnswerReturned(h)
    /\ \E i \in DOMAIN calls[h] :
          calls[h][i].step = "answer" /\ calls[h][i].status = "ok" /\ calls[h][i].text = mainAnswer[h]
    /\ ~Falsy(mainAnswer[h])
    /\ mainAnswer[h] # GeminiRefusalText

\* C21: when the answer is the refusal, the invocation makes no suggestion
\* call and its suggestion list is empty; when the answer is a text of a
\* provider that is not the refusal, it makes exactly one suggestion call.
C21_RefusalSkipsSuggestions ==
    \A h \in Handlers :
        /\ mainAnswer[h] = GeminiRefusalText =>
              SuggestionCalls(h) = {} /\ suggestions[h] = <<>>
        /\ RealAnswer(h) => Cardinality(SuggestionCalls(h)) = 1

\* C22: an invocation whose answer is the refusal has put an entry for its
\* key by the time it replies, and a get of a key whose last put was a
\* question with the refusal, at most stdTTL earlier, returns that entry.
C22_RefusalPersisted ==
    \A h \in Handlers :
        /\ (pc[h] \in {"await_update", "done"} /\ mainAnswer[h] = GeminiRefusalText) =>
              /\ lastPut[KeyOf(h)] # <<>>
              /\ lastPut[KeyOf(h)][1].at >= seen[h].at
              /\ lastPut[KeyOf(h)][1].v.answer = GeminiRefusalText
              /\ clock - lastPut[KeyOf(h)][1].at <= stdTTL =>
                    CacheGet(cache, KeyOf(h), clock) = <<lastPut[KeyOf(h)][1].v>>
        /\ (/\ pc[h] \notin {"idle", "posting"}
            /\ seen[h].last # <<>>
            /\ seen[h].last[1].v.answer = GeminiRefusalText
            /\ seen[h].at - seen[h].last[1].at <= stdTTL) =>
              previousConversation[h] = <<seen[h].last[1].v>>

C22_Witness ==
    \E h \in Handlers :
        /\ pc[h] = "await_gemini"
        /\ seen[h].last # <<>>
        /\ seen[h].at = seen[h].last[1].at + 1
        /\ previousConversation[h] = <<[question |-> "q2", answer |-> GeminiRefusalText]>>
        /\ req[h].question = "q1"

OwnKey(h) == <<"convo", req[h].userId, req[h].channelId>>

\* C24: the answer prompt of an invocation, as built and as sent, embeds
\* the entry last put for the user and channel of its request when that put
\* was at most stdTTL before the get, and the none marker otherwise.
C24_PromptEmbedsOwnEntry ==
    \A h \in Handlers :
        pc[h] \notin {"idle", "posting"} =>
            LET last == lastPut[OwnKey(h)]
                expected == IF seen[h].last # <<>> /\ seen[h].at - seen[h].last[1].at <= stdTTL
                            THEN <<seen[h].last[1].v>> ELSE <<>>
            IN /\ prompt[h].previous = expected
               /\ calls[h][1].prompt.previous = expected
               /\ prompt[h].question = req[h].question
               /\ seen[h].last # <<>> =>
                     /\ last # <<>>
                     /\ last[1].at >= seen[h].last[1].at
                     /\ last[1].at < seen[h].at => last = seen[h].last

C24_Witness ==
    \E h \in Handlers :
        /\ pc[h] = "await_gemini"
        /\ prompt[h].previous = <<>>
        /\ lastPut[OwnKey(h)] = <<>>
        /\ \E e \in cache : e.k # OwnKey(h) /\ ~Expired(e, clock)

EntriesOf(c, k) == { e \in c : e.k = k }
Answering == {"await_gemini", "await_openai", "await_suggest"}

\* C25: the entry of a key changes only by the put of one invocation for
\* that key, and the put leaves the question and the answer of that
\* invocation as the entry: the entry is the pair of the invocation that
\* put last.
C25_LastPutWins ==
    [][\A k \in Keys :
          EntriesOf(cache', k) # EntriesOf(cache, k) =>
              \E h \in Handlers :
                  /\ pc[h] \in Answering
                  /\ pc'[h] = "await_update"
                  /\ OwnKey(h) = k
                  /\ Cardinality(EntriesOf(cache', k)) = 1
                  /\ \A e \in EntriesOf(cache', k) :
                        e.v = [question |-> req[h].question, answer |-> mainAnswer'[h]]
                  /\ \A g \in Handlers \ {h} : pc'[g] = pc[g]]_vars

C25_Witness ==
    /\ \A h \in Handlers : pc[h] = "done" /\ seen[h].last = <<>>
    /\ OwnKey("h1") = OwnKey("h2")
    /\ req["h1"].question # req["h2"].question
    /\ mainAnswer["h1"] = GeminiAnswerText
    /\ mainAnswer["h2"] = GeminiRefusalText
    /\ CacheGet(cache, OwnKey("h1"), clock) = <<[question |-> req["h1"].question, answer |-> GeminiAnswerText]>>

\* C26: a step of an invocation leaves the entries of every key but its
\* own as they are: it neither creates, changes, renews nor removes them.
C26_OtherKeysUntouched ==
    [][\A h \in Handlers :
          pc'[h] # pc[h] =>
              \A k \in Keys :
                  (k # OwnKey(h) /\ k # <<"convo", req'[h].userId, req'[h].channelId>>) =>
                      EntriesOf(cache', k) = EntriesOf(cache, k)]_vars

C26_Witness ==
    \E h \in Handlers :
        /\ pc[h] = "await_update"
        /\ \E e \in cache : e.k = OwnKey(h) /\ e.t = clock + stdTTL
        /\ \E e \in cache : e.k # OwnKey(h) /\ e.t < clock + stdTTL /\ ~Expired(e, clock)

\* ------------------------------------------------------------------------
\* The knowledge blob and the invocations
\* ------------------------------------------------------------------------
\* C28: the suggestion prompt of an invocation embeds the document that its
\* answer prompt embeds.
C28_SuggestionPromptSameBlob ==
    \A h \in Handlers :
        \A i \in SuggestionCalls(h) :
            /\ calls[h][i].prompt.document # Null
            /\ calls[h][i].prompt.document = calls[h][1].prompt.document

\* C27: the read of the blob by a question is never held up by an indexAll
\* suspended in its fetches: the step that builds the answer prompt can be
\* taken whatever the indexAll tasks are doing, it takes the blob as it is
\* at that moment, a complete value, and the blob only ever changes at the
\* step in which an indexAll finishes, so what is read during a reindex is
\* the value in place before it.
C27_ReadNeverWaits ==
    /\ [](\A h \in Handlers : pc[h] = "posting" => ENABLED PostMessageOk(h, TRUE))
    /\ [][/\ \A h \in Handlers :
               (pc[h] = "posting" /\ pc'[h] = "await_gemini") =>
                   /\ prompt'[h].document = indexedKnowledge
                   /\ indexedKnowledge \in CompleteBlobs
                   /\ indexing' = indexing
                   /\ indexedKnowledge' = indexedKnowledge
          /\ indexedKnowledge' # indexedKnowledge =>
                 \E r \in Indexers : indexing[r] = "fetching" /\ indexing'[r] = "idle"]_vars

C27_Witness ==
    /\ pc["h1"] = "await_gemini"
    /\ seen["h1"].reindexing
    /\ \E r \in Indexers : indexing[r] = "fetching"
    /\ lastIndex # <<>>
    /\ IsLabeled(prompt["h1"].document)
    /\ prompt["h1"].document = indexedKnowledge

\* C29: whatever the order in which two overlapping indexAll calls started,
\* the blob is the value built from the fetches of the call that finished
\* last, also when that call started first and the call that started after
\* it had already stored its result.
BuiltFrom(f) ==
    IF \A i \in 1..3 : FetchEmptyOrFailed(f[i]) THEN FailureSentinel
    ELSE LabeledSections(f)

C29_LastFinisherWins ==
    lastIndex # <<>> => indexedKnowledge = BuiltFrom(lastIndex[1].fetches)

C29_Witness ==
    /\ \A r \in Indexers : indexing[r] = "idle"
    /\ lastIndex # <<>>
    /\ lastIndex[1].stale
    /\ lastIndex[1].fetches[1] = Returned(GoogleText)
    /\ indexedKnowledge = LabeledSections(lastIndex[1].fetches)

\* C30: when the first call to Gemini fails because the response was
\* blocked or had no text, OpenAI is never called for that question and the
\* answer is the apology.
BlockedFailure(call) ==
    /\ call.provider = "gemini" /\ call.status = "error"
    /\ call.error.message = Str(<<"Gemini response was blocked. Reason: ", "SAFETY", ".">>)
EmptyFailure(call) ==
    /\ call.provider = "gemini" /\ call.status = "error"
    /\ call.error.message = Str(<<"Gemini returned an empty response.">>)

C30_BlockedOrEmptyApologises ==
    \A h \in Handlers :
        (calls[h] # <<>> /\ (BlockedFailure(calls[h][1]) \/ EmptyFailure(calls[h][1]))) =>
            /\ \A i \in DOMAIN calls[h] : calls[h][i].provider # "openai"
            /\ pc[h] # "await_openai"
            /\ mainAnswer[h] = ApologyText

C30_Witness ==
    /\ stats.fallbacksUsed = 0
    /\ \E h \in Handlers :
          /\ pc[h] = "done"
          /\ BlockedFailure(calls[h][1])
          /\ mainAnswer[h] = ApologyText
          /\ message[h][1].text = ApologyText

\* ------------------------------------------------------------------------
\* Totality, progress and frames
\* ------------------------------------------------------------------------
\* C31: whatever the primary and the fallback provider do, what
\* generateAnswer hands back to handleQuestion is a string that is not
\* empty.
C31_AnswerNonEmpty ==
    \A h \in Handlers :
        AnswerReturned(h) =>
            /\ mainAnswer[h].type = "string"
            /\ mainAnswer[h].val # <<>>

\* C32: a question whose placeholder is still the message shown always has
\* a step left that leads to the update of that message: a provider call
\* that settles, or the update itself.
PlaceholderShown(h) ==
    /\ pc[h] \in Awaiting \cup {"await_update", "await_critical"}
    /\ message[h] # <<>>
    /\ message[h][1].text = ThinkingText

C32_PlaceholderProgress ==
    \A h \in Handlers :
        PlaceholderShown(h) =>
            ENABLED (HandlerStep(h) \/ UpdateOk(h) \/ CriticalOk(h))

\* C33: no step of a question, asked with or without a document override,
\* changes the knowledge blob, and no step of an indexAll changes the
\* conversation cache.
C33_StoresHaveOneWriter ==
    [][/\ (\E h \in Handlers : pc'[h] # pc[h]) => indexedKnowledge' = indexedKnowledge
       /\ (\E r \in Indexers : indexing'[r] # indexing[r]) =>
              /\ cache' = cache
              /\ lastPut' = lastPut]_vars

\* A question with an override found an entry in the cache and an indexAll
\* suspended; that indexAll has finished since, and the question has
\* written its own entry.
C33_Witness ==
    /\ pc["h1"] = "await_update"
    /\ ~Falsy(req["h1"].documentOverride)
    /\ prompt["h1"].document = req["h1"].documentOverride
    /\ previousConversation["h1"] # <<>>
    /\ seen["h1"].reindexing
    /\ \A r \in Indexers : indexing[r] = "idle"
    /\ indexedKnowledge = LabeledSections(lastIndex[1].fetches)
    /\ indexedKnowledge # req["h1"].documentOverride
    /\ \E e \in cache : e.k = OwnKey("h1") /\ e.v.question = "q2"

====
